---------------------------- MODULE Spec2Model ----------------------------
(***************************************************************************)
(* Model of Assignment1.py: DataConnector (fetch from an HTTP API, cache   *)
(* the JSON under one Redis key, read it back), Analytics (pandas          *)
(* filter / aggregate / bar chart) and the __main__ flow that chains them. *)
(*                                                                         *)
(* Python objects are records [k, n, s, keys, items]; every object carries *)
(* all five fields so that any two objects can be compared.                *)
(* JSON text and Redis values are sequences of one-character strings.      *)
(***************************************************************************)
EXTENDS Integers, Sequences, FiniteSets, TLC

\* ------------------------------------------------------------------ bounds
\* Longest list (records in a RecordSet) the cache model is driven with.
MaxLen == 2
\* Largest magnitude of an integer scalar.
MaxInt == 12
\* Most rows of a table handed to Analytics.
MaxRows == 3

\* ---------------------------------------------------------- Python objects
Obj(k, n, s, keys, items) ==
  [k |-> k, n |-> n, s |-> s, keys |-> keys, items |-> items]

PyNone == Obj("NoneType", 0, <<>>, <<>>, <<>>)
PyBool(b) == Obj("bool", IF b THEN 1 ELSE 0, <<>>, <<>>, <<>>)
PyInt(n) == Obj("int", n, <<>>, <<>>, <<>>)
PyStr(s) == Obj("str", 0, s, <<>>, <<>>)
PyList(items) == Obj("list", 0, <<>>, <<>>, items)
\* A dict in insertion order: keys[i] (a str) maps to items[i].
PyDict(keys, items) == Obj("dict", 0, <<>>, keys, items)
\* An object the json module has no encoding for (a set, a class instance).
PyObject == Obj("object", 0, <<>>, <<>>, <<>>)
\* float('nan'), as pandas reports a reduction over no values.
PyNaN == Obj("float", 0, <<"n", "a", "n">>, <<>>, <<>>)

\* bool(v), as `if json_data:` and `if redis_data:` evaluate it.
Truthy(v) ==
  CASE v.k = "NoneType" -> FALSE
    [] v.k \in {"bool", "int"} -> v.n # 0
    [] v.k = "str" -> v.s # <<>>
    [] v.k = "list" -> v.items # <<>>
    [] v.k = "dict" -> v.keys # <<>>
    [] OTHER -> TRUE

\* ------------------------------------------------------------ json.dumps
DigitChar == <<"0", "1", "2", "3", "4", "5", "6", "7", "8", "9">>

RECURSIVE NatRepr(_)
NatRepr(n) ==
  IF n < 10 THEN <<DigitChar[n + 1]>>
  ELSE NatRepr(n \div 10) \o <<DigitChar[(n % 10) + 1]>>

\* int.__repr__
IntRepr(n) == IF n < 0 THEN <<"-">> \o NatRepr(-n) ELSE NatRepr(n)

\* The non-ASCII characters of the model and their \uXXXX code points.
NonAscii == {"U+00E9"}
CodePoint(c) == IF c = "U+00E9" THEN <<"0", "0", "e", "9">> ELSE <<>>

\* Mutant: a str is written between quotes as it is, nothing escaped.
EscapeCharRaw(c) == <<c>>

\* ESCAPE_ASCII of json.encoder: one character of a str, as it is written.
EscapeChar(c) ==
  CASE c = "\"" -> <<"\\", "\"">>
    [] c = "\\" -> <<"\\", "\\">>
    [] c = "\n" -> <<"\\", "n">>
    [] c = "\t" -> <<"\\", "t">>
    [] c \in NonAscii -> <<"\\", "u">> \o CodePoint(c)
    [] OTHER -> <<c>>

RECURSIVE EscapeStr(_)
EscapeStr(s) ==
  IF s = <<>> THEN <<>> ELSE EscapeChar(Head(s)) \o EscapeStr(Tail(s))

\* encode_basestring_ascii
EncodeStr(s) == <<"\"">> \o EscapeStr(s) \o <<"\"">>

\* Whether JSONEncoder has an encoding for v (else default() raises TypeError).
RECURSIVE Serializable(_)
Serializable(v) ==
  CASE v.k \in {"NoneType", "bool", "int", "str"} -> TRUE
    [] v.k \in {"list", "dict"} ->
         \A i \in 1..Len(v.items) : Serializable(v.items[i])
    [] OTHER -> FALSE

\* JSONEncoder.encode with the default separators (', ', ': ').
RECURSIVE Encode(_), EncodeItems(_, _), EncodePairs(_, _, _)
Encode(v) ==
  CASE v.k = "NoneType" -> <<"n", "u", "l", "l">>
    [] v.k = "bool" ->
         IF v.n = 1 THEN <<"t", "r", "u", "e">> ELSE <<"f", "a", "l", "s", "e">>
    [] v.k = "int" -> IntRepr(v.n)
    [] v.k = "str" -> EncodeStr(v.s)
    [] v.k = "list" -> <<"[">> \o EncodeItems(v.items, 1) \o <<"]">>
    [] v.k = "dict" -> <<"{">> \o EncodePairs(v.keys, v.items, 1) \o <<"}">>
    [] OTHER -> <<>>

EncodeItems(items, i) ==
  IF i > Len(items) THEN <<>>
  ELSE (IF i > 1 THEN <<",", " ">> ELSE <<>>)
       \o Encode(items[i]) \o EncodeItems(items, i + 1)

EncodePairs(keys, items, i) ==
  IF i > Len(keys) THEN <<>>
  ELSE (IF i > 1 THEN <<",", " ">> ELSE <<>>)
       \o EncodeStr(keys[i]) \o <<":", " ">> \o Encode(items[i])
       \o EncodePairs(keys, items, i + 1)

\* json.dumps(data): the text, or the exception it raises.
JsonDumps(v) ==
  IF Serializable(v) THEN [exc |-> "none", text |-> Encode(v)]
  ELSE [exc |-> "TypeError", text |-> <<>>]

\* ------------------------------------------------------------ json.loads
At(t, i) == IF i >= 1 /\ i <= Len(t) THEN t[i] ELSE "EOF"

Whitespace == {" ", "\t", "\n", "\r"}

RECURSIVE SkipWs(_, _)
SkipWs(t, i) == IF At(t, i) \in Whitespace THEN SkipWs(t, i + 1) ELSE i

Fail == [ok |-> FALSE, val |-> PyNone, end |-> 0]
Got(v, e) == [ok |-> TRUE, val |-> v, end |-> e]

\* BACKSLASH of json.decoder: the character an escape letter stands for.
Unescape(c) ==
  CASE c = "\"" -> "\""
    [] c = "\\" -> "\\"
    [] c = "/" -> "/"
    [] c = "n" -> "\n"
    [] c = "t" -> "\t"
    [] c = "r" -> "\r"
    [] OTHER -> "EOF"

\* The character \uXXXX names, "EOF" if it is none of the model's.
FromCodePoint(h) ==
  IF \E c \in NonAscii : CodePoint(c) = h
  THEN CHOOSE c \in NonAscii : CodePoint(c) = h
  ELSE "EOF"

\* py_scanstring (strict): t[i] is the first character after the opening
\* quote; the result's val is a str.
RECURSIVE ScanString(_, _, _)
ScanString(t, i, acc) ==
  LET c == At(t, i) IN
  CASE c = "EOF" -> Fail
    [] c = "\"" -> Got(PyStr(acc), i + 1)
    [] c \in {"\n", "\t", "\r"} -> Fail
    [] c = "\\" ->
         LET e == At(t, i + 1) IN
         IF e = "u" THEN
           IF i + 5 <= Len(t) /\ FromCodePoint(SubSeq(t, i + 2, i + 5)) # "EOF"
           THEN ScanString(t, i + 6,
                           Append(acc, FromCodePoint(SubSeq(t, i + 2, i + 5))))
           ELSE Fail
         ELSE IF Unescape(e) # "EOF"
              THEN ScanString(t, i + 2, Append(acc, Unescape(e)))
              ELSE Fail
    [] OTHER -> ScanString(t, i + 1, Append(acc, c))

DigitOf(c) == (CHOOSE d \in 1..10 : DigitChar[d] = c) - 1
IsDigit(c) == \E d \in 1..10 : DigitChar[d] = c

RECURSIVE ScanDigits(_, _, _)
ScanDigits(t, i, acc) ==
  IF IsDigit(At(t, i)) THEN ScanDigits(t, i + 1, 10 * acc + DigitOf(At(t, i)))
  ELSE [n |-> acc, end |-> i]

\* NUMBER_RE of json.scanner, integer part: -?(0|[1-9]\d*)
ScanNumber(t, i) ==
  LET neg == At(t, i) = "-"
      j == IF neg THEN i + 1 ELSE i
      c == At(t, j)
  IN IF ~IsDigit(c) THEN Fail
     ELSE IF c = "0" THEN Got(PyInt(0), j + 1)
     ELSE LET d == ScanDigits(t, j, 0)
          IN Got(PyInt(IF neg THEN -d.n ELSE d.n), d.end)

IsWord(t, i, w) == i + Len(w) - 1 <= Len(t) /\ SubSeq(t, i, i + Len(w) - 1) = w

\* The position of key in keys, 0 if it is not there.
IndexOf(keys, key) ==
  IF \E i \in 1..Len(keys) : keys[i] = key
  THEN CHOOSE i \in 1..Len(keys) : keys[i] = key
  ELSE 0

\* py_make_scanner's _scan_once, JSONArray and JSONObject.
RECURSIVE ScanOnce(_, _), ArrayLoop(_, _, _), ObjectLoop(_, _, _, _)
ScanOnce(t, i) ==
  LET c == At(t, i) IN
  CASE c = "\"" -> ScanString(t, i + 1, <<>>)
    [] c = "{" ->
         LET j == SkipWs(t, i + 1) IN
         IF At(t, j) = "}" THEN Got(PyDict(<<>>, <<>>), j + 1)
         ELSE ObjectLoop(t, j, <<>>, <<>>)
    [] c = "[" ->
         LET j == SkipWs(t, i + 1) IN
         IF At(t, j) = "]" THEN Got(PyList(<<>>), j + 1)
         ELSE ArrayLoop(t, j, <<>>)
    [] c = "n" /\ IsWord(t, i, <<"n", "u", "l", "l">>) -> Got(PyNone, i + 4)
    [] c = "t" /\ IsWord(t, i, <<"t", "r", "u", "e">>) -> Got(PyBool(TRUE), i + 4)
    [] c = "f" /\ IsWord(t, i, <<"f", "a", "l", "s", "e">>) ->
         Got(PyBool(FALSE), i + 5)
    [] OTHER -> ScanNumber(t, i)

ArrayLoop(t, i, acc) ==
  LET r == ScanOnce(t, i) IN
  IF ~r.ok THEN Fail
  ELSE LET j == SkipWs(t, r.end)
           c == At(t, j)
       IN CASE c = "]" -> Got(PyList(Append(acc, r.val)), j + 1)
            [] c = "," -> ArrayLoop(t, SkipWs(t, j + 1), Append(acc, r.val))
            [] OTHER -> Fail

ObjectLoop(t, i, keys, items) ==
  IF At(t, i) # "\"" THEN Fail
  ELSE
    LET key == ScanString(t, i + 1, <<>>) IN
    IF ~key.ok THEN Fail
    ELSE
      LET j == SkipWs(t, key.end) IN
      IF At(t, j) # ":" THEN Fail
      ELSE
        LET r == ScanOnce(t, SkipWs(t, j + 1)) IN
        IF ~r.ok THEN Fail
        ELSE
          LET p == IndexOf(keys, key.val.s)
              keys2 == IF p = 0 THEN Append(keys, key.val.s) ELSE keys
              items2 == IF p = 0 THEN Append(items, r.val)
                        ELSE [items EXCEPT ![p] = r.val]
              m == SkipWs(t, r.end)
              c == At(t, m)
          IN CASE c = "}" -> Got(PyDict(keys2, items2), m + 1)
               [] c = "," -> ObjectLoop(t, SkipWs(t, m + 1), keys2, items2)
               [] OTHER -> Fail

\* json.loads(text): JSONDecoder.decode, which rejects trailing text.
JsonLoads(t) ==
  LET r == ScanOnce(t, SkipWs(t, 1)) IN
  IF r.ok /\ SkipWs(t, r.end) = Len(t) + 1 THEN [exc |-> "none", val |-> r.val]
  ELSE [exc |-> "JSONDecodeError", val |-> PyNone]

\* ------------------------------------------------- the values the model uses
Dell == <<"D", "e", "l", "l">>
Apple == <<"A", "p", "p", "l", "e">>
Xiaomi == <<"X", "i", "a", "o", "m", "i">>
\* A str with a quote, a non-ASCII character and a backslash in it.
Quoted == <<"\"", "U+00E9", "\\">>
p_brand == <<"p", "_", "b", "r", "a", "n", "d">>
p_rate2star == <<"p", "_", "r", "a", "t", "e", "2", "s", "t", "a", "r">>
p_rate3star == <<"p", "_", "r", "a", "t", "e", "3", "s", "t", "a", "r">>
meta == <<"m", "e", "t", "a">>

SeqsUpTo(S, n) == UNION {[1..m -> S] : m \in 0..n}

Scalars ==
  {PyNone, PyBool(TRUE), PyBool(FALSE), PyInt(-MaxInt), PyInt(0), PyInt(MaxInt),
   PyStr(<<>>), PyStr(Dell), PyStr(Quoted)}

\* Records of a RecordSet: field name -> scalar or nested mapping.
RecDell == PyDict(<<p_brand, p_rate2star>>, <<PyStr(Dell), PyInt(MaxInt)>>)
RecNull == PyDict(<<p_brand, p_rate2star>>, <<PyNone, PyInt(-MaxInt)>>)
RecNested ==
  PyDict(<<p_brand, meta>>, <<PyStr(Quoted), PyDict(<<meta>>, <<PyBool(TRUE)>>)>>)
Records == {RecDell, RecNull, RecNested, PyDict(<<>>, <<>>)}

RecordSets == {PyList(rs) : rs \in SeqsUpTo(Records, MaxLen)}

\* What a caller may hand to load_data_to_redis: any Python object.
Values ==
  Scalars \cup RecordSets
  \cup {PyList(<<PyList(<<PyInt(1), PyBool(FALSE)>>), PyList(<<>>)>>),
        PyObject, PyList(<<PyInt(1), PyObject>>)}

\* ------------------------------------------------------------ the Redis store
\* store maps each existing key to [text, by]: the value and who SET it.
DataKey == "data_key"
OtherKey == "session"

Conn == {"ok", "unreachable", "auth_rejected"}

\* The exception a redis command raises over this connection.
RedisFault(conn) ==
  CASE conn = "unreachable" -> "ConnectionError"
    [] conn = "auth_rejected" -> "AuthenticationError"
    [] OTHER -> "none"

\* Mutant: SET key text NX, which leaves an existing key alone.
RedisSetNX(st, key, text, who) ==
  IF key \in DOMAIN st THEN st
  ELSE [k \in DOMAIN st \cup {key} |->
          IF k = key THEN [text |-> text, by |-> who] ELSE st[k]]

\* Mutant: APPEND key text, which adds to the value already there.
RedisAppend(st, key, text, who) ==
  [k \in DOMAIN st \cup {key} |->
     IF k = key
     THEN [text |-> (IF key \in DOMAIN st THEN st[key].text ELSE <<>>) \o text,
           by |-> who]
     ELSE st[k]]

\* SET key text
RedisSet(st, key, text, who) ==
  [k \in DOMAIN st \cup {key} |->
     IF k = key THEN [text |-> text, by |-> who] ELSE st[k]]

\* DEL key
RedisDel(st, key) == [k \in DOMAIN st \ {key} |-> st[k]]

Nil == <<"(nil)">>

\* GET key: the bytes, or Nil (Python's None) when the key does not exist.
RedisGet(st, key) == IF key \in DOMAIN st THEN st[key].text ELSE Nil

\* Mutant: `if json_data is not None:`.
BytesNotNone(b) == b # Nil

\* `if json_data:` on the reply of GET: neither None nor b''.
BytesTruthy(b) == b # Nil /\ b # <<>>

\* ------------------------------------------------------------ try / except
ExceptionSubclasses ==
  {"TypeError", "JSONDecodeError", "ConnectionError", "AuthenticationError",
   "RequestException", "KeyError", "ValueError"}

\* Mutant: `except redis.RedisError as e:`.
ExceptRedisError(exc) == exc \in {"ConnectionError", "AuthenticationError"}

\* `except Exception as e:` catches exc.
ExceptException(exc) == exc \in ExceptionSubclasses

Printed(msg, e) == [msg |-> msg, e |-> e]
NoPrint == Printed("", "none")

\* ------------------------------------------------------------ DataConnector
\* Mutant: load_data_to_redis that returns at once when data is None.
load_data_to_redis_skip_none(st, data, conn) ==
  LET d == JsonDumps(data)
      exc == IF d.exc # "none" THEN d.exc ELSE RedisFault(conn)
  IN IF data = PyNone THEN
       [store |-> st, ret |-> PyNone, out |-> NoPrint,
        exc |-> "none", raised |-> "none"]
     ELSE IF exc = "none" THEN
       [store |-> RedisSet(st, DataKey, d.text, "program"), ret |-> PyNone,
        out |-> Printed("Data loaded into Redis successfully.", "none"),
        exc |-> "none", raised |-> "none"]
     ELSE [store |-> st, ret |-> PyNone,
           out |-> Printed("Error loading data into Redis:", exc),
           exc |-> exc, raised |-> "none"]

\* load_data_to_redis(data, ...) over store st: the store after it, what it
\* printed, the exception it caught (exc) and the one it let escape (raised).
load_data_to_redis(st, data, conn) ==
  LET d == JsonDumps(data)
      exc == IF d.exc # "none" THEN d.exc ELSE RedisFault(conn)
  IN IF exc = "none" THEN
       [store |-> RedisSet(st, DataKey, d.text, "program"), ret |-> PyNone,
        out |-> Printed("Data loaded into Redis successfully.", "none"),
        exc |-> "none", raised |-> "none"]
     ELSE IF ExceptException(exc) THEN
       [store |-> st, ret |-> PyNone,
        out |-> Printed("Error loading data into Redis:", exc),
        exc |-> exc, raised |-> "none"]
     ELSE [store |-> st, ret |-> PyNone, out |-> NoPrint,
           exc |-> exc, raised |-> exc]

\* read_data_from_redis(...) over store st.
read_data_from_redis(st, conn) ==
  LET fault == RedisFault(conn)
      json_data == RedisGet(st, DataKey)
      d == JsonLoads(json_data)
      exc == IF fault # "none" THEN fault
             ELSE IF BytesTruthy(json_data) THEN d.exc ELSE "none"
  IN IF exc = "none" THEN
       IF BytesTruthy(json_data)
       THEN [ret |-> d.val, out |-> NoPrint, exc |-> "none", raised |-> "none"]
       ELSE [ret |-> PyNone, out |-> Printed("No data found in Redis.", "none"),
             exc |-> "none", raised |-> "none"]
     ELSE IF ExceptException(exc) THEN
       [ret |-> PyNone, out |-> Printed("Error reading data from Redis:", exc),
        exc |-> exc, raised |-> "none"]
     ELSE [ret |-> PyNone, out |-> NoPrint, exc |-> exc, raised |-> exc]

\* Mutant: acquire_data_from_api without its try / except.
acquire_data_from_api_unguarded(resp) ==
  LET d == JsonLoads(resp.body)
      exc == IF resp.fault # "none" THEN resp.fault ELSE d.exc
  IN IF exc = "none" THEN
       [ret |-> d.val, out |-> NoPrint, exc |-> "none", raised |-> "none"]
     ELSE [ret |-> PyNone, out |-> NoPrint, exc |-> exc, raised |-> exc]

\* acquire_data_from_api(url), given what the server answers: resp is
\* [fault, status, body], fault the exception requests.get raises ("none" when
\* a response arrives), body the response text that response.json() decodes.
acquire_data_from_api(resp) ==
  LET d == JsonLoads(resp.body)
      exc == IF resp.fault # "none" THEN resp.fault ELSE d.exc
  IN IF exc = "none" THEN
       [ret |-> d.val, out |-> NoPrint, exc |-> "none", raised |-> "none"]
     ELSE IF ExceptException(exc) THEN
       [ret |-> PyNone, out |-> Printed("Data acquisition error:", exc),
        exc |-> exc, raised |-> "none"]
     ELSE [ret |-> PyNone, out |-> NoPrint, exc |-> exc, raised |-> exc]

\* ------------------------------------------------------------------ pandas
\* A DataFrame: the column labels, the index labels of its rows (0-based
\* positions in the frame it was built as) and the rows, one cell per column.
Frame(columns, index, rows) ==
  [columns |-> columns, index |-> index, rows |-> rows]
NoFrame == Frame(<<>>, <<>>, <<>>)

\* Mutant: only NaN counts as NA.
IsNaN(c) == c = PyNaN

\* isna: NaN (a key the record lacks) and None.  pandas may store None as NaN
\* in a numeric column; both are NA to every operation modelled here.
IsNA(c) == c = PyNaN \/ c = PyNone

Numeric(c) == c.k \in {"int", "bool"}

\* Python's a == b on scalars: True == 1, and 1 != "1".
PyEq(a, b) == IF Numeric(a) /\ Numeric(b) THEN a.n = b.n ELSE a = b

\* One cell of `series == value`: NA compares unequal to everything, None too.
PandasEq(cell, value) == ~IsNA(cell) /\ ~IsNA(value) /\ PyEq(cell, value)

RECURSIVE AddKeys(_, _)
AddKeys(cols, keys) ==
  IF keys = <<>> THEN cols
  ELSE AddKeys(IF IndexOf(cols, Head(keys)) = 0 THEN Append(cols, Head(keys))
               ELSE cols, Tail(keys))

\* The union of the records' keys, in order of first appearance.
RECURSIVE ColumnsOf(_, _)
ColumnsOf(recs, cols) ==
  IF recs = <<>> THEN cols ELSE ColumnsOf(Tail(recs), AddKeys(cols, Head(recs).keys))

CellOf(rec, col) ==
  IF IndexOf(rec.keys, col) = 0 THEN PyNaN ELSE rec.items[IndexOf(rec.keys, col)]

\* pd.DataFrame(data): a list of dicts gives one row per dict, a list of
\* scalars one column labelled 0; a dict of scalars, or a scalar, is refused
\* with ValueError.  (Lists that mix dicts and scalars and dicts of
\* containers are not modelled; no value of the model is one.)
DataFrameOf(v) ==
  IF v.k = "list" /\ \A i \in 1..Len(v.items) : v.items[i].k = "dict" THEN
    LET cols == ColumnsOf(v.items, <<>>) IN
    [exc |-> "none",
     df |-> Frame(cols, [i \in 1..Len(v.items) |-> i - 1],
                  [i \in 1..Len(v.items) |->
                     [j \in 1..Len(cols) |-> CellOf(v.items[i], cols[j])]])]
  ELSE IF v.k = "list"
          /\ \A i \in 1..Len(v.items) : v.items[i].k \notin {"dict", "list"}
  THEN [exc |-> "none",
        df |-> Frame(<<<<"0">>>>, [i \in 1..Len(v.items) |-> i - 1],
                     [i \in 1..Len(v.items) |-> <<v.items[i]>>])]
  ELSE [exc |-> "ValueError", df |-> NoFrame]

\* The positions 1..n that mask keeps, ascending.
RECURSIVE Kept(_, _, _)
Kept(mask, i, n) ==
  IF i > n THEN <<>>
  ELSE (IF mask[i] THEN <<i>> ELSE <<>>) \o Kept(mask, i + 1, n)

\* dataframe[mask]: boolean indexing, a new frame of the rows mask keeps.
BoolIndex(t, mask) ==
  LET pos == Kept(mask, 1, Len(t.rows)) IN
  Frame(t.columns, [j \in 1..Len(pos) |-> t.index[pos[j]]],
        [j \in 1..Len(pos) |-> t.rows[pos[j]]])

\* dataframe[column] as a sequence of cells (column must be a label of t).
Series(t, column) ==
  [i \in 1..Len(t.rows) |-> t.rows[i][IndexOf(t.columns, column)]]

\* dataframe[columns[:n]]
FirstColumns(t, n) ==
  LET m == IF Len(t.columns) < n THEN Len(t.columns) ELSE n IN
  Frame(SubSeq(t.columns, 1, m), t.index,
        [i \in 1..Len(t.rows) |-> SubSeq(t.rows[i], 1, m)])

\* ---------------------------------------------------------------- Analytics
NaNMean == [nan |-> TRUE, num |-> 0, den |-> 1]
NoAgg == [min |-> PyNone, max |-> PyNone, average |-> NaNMean]

RECURSIVE SumOf(_)
SumOf(cells) == IF cells = <<>> THEN 0 ELSE Head(cells).n + SumOf(Tail(cells))

\* Mutant: dataframe[dataframe[column] != value]
search_data_ne(t, column, value) ==
  IF IndexOf(t.columns, column) = 0 THEN [raised |-> "KeyError", table |-> NoFrame]
  ELSE LET col == Series(t, column) IN
       [raised |-> "none",
        table |-> BoolIndex(t, [i \in 1..Len(col) |-> ~PandasEq(col[i], value)])]

\* search_data(dataframe, column, value): dataframe[dataframe[column] == value]
search_data(t, column, value) ==
  IF IndexOf(t.columns, column) = 0 THEN [raised |-> "KeyError", table |-> NoFrame]
  ELSE LET col == Series(t, column) IN
       [raised |-> "none",
        table |-> BoolIndex(t, [i \in 1..Len(col) |-> PandasEq(col[i], value)])]

\* df[df[column].isin(values)]
filter_isin(t, column, values) ==
  IF IndexOf(t.columns, column) = 0 THEN [raised |-> "KeyError", table |-> NoFrame]
  ELSE LET col == Series(t, column) IN
       [raised |-> "none",
        table |-> BoolIndex(t, [i \in 1..Len(col) |->
                                  \E v \in values : PandasEq(col[i], v)])]

\* aggregate_data(dataframe, column): min, max and mean skip NA cells and are
\* NaN when nothing is left; mean of a column holding a str raises TypeError.
\* The mean is kept as the pair sum / count.
aggregate_data(t, column) ==
  IF IndexOf(t.columns, column) = 0 THEN [raised |-> "KeyError", agg |-> NoAgg]
  ELSE
    LET col == Series(t, column)
        vals == SelectSeq(col, LAMBDA c : ~IsNA(c))
    IN IF \E i \in 1..Len(vals) : ~Numeric(vals[i])
       THEN [raised |-> "TypeError", agg |-> NoAgg]
       ELSE IF vals = <<>>
       THEN [raised |-> "none",
             agg |-> [min |-> PyNaN, max |-> PyNaN, average |-> NaNMean]]
       ELSE [raised |-> "none",
             agg |-> [min |-> CHOOSE c \in {vals[i] : i \in 1..Len(vals)} :
                                \A i \in 1..Len(vals) : c.n <= vals[i].n,
                      max |-> CHOOSE c \in {vals[i] : i \in 1..Len(vals)} :
                                \A i \in 1..Len(vals) : c.n >= vals[i].n,
                      average |-> [nan |-> FALSE, num |-> SumOf(vals),
                                   den |-> Len(vals)]]]

\* generate_graph(dataframe, column_x, column_y): both columns are looked up
\* before anything is drawn.
generate_graph(t, column_x, column_y) ==
  IF IndexOf(t.columns, column_x) = 0 \/ IndexOf(t.columns, column_y) = 0
  THEN [raised |-> "KeyError"]
  ELSE [raised |-> "none"]

\* ------------------------------------------------------------------ state
VARIABLES
  store,       \* the Redis server: key -> [text, by]
  call,        \* the last event at the cache: [op, exc, note]
  ret,         \* what the last DataConnector call returned
  raised,      \* the exception the last call let escape to its caller
  out,         \* the last line printed
  lastPut,     \* [set, val]: the value of the latest successful put, while
               \* no one else has written or deleted the key since
  data,        \* Analytics.data
  dataframe,   \* Analytics.dataframe
  df,          \* the frame the caller hands to the Analytics methods
  result,      \* the last Analytics call and what it gave
  pc,          \* where the __main__ flow stands
  fetched,     \* __main__'s data
  redis_data,  \* __main__'s redis_data
  trace,       \* the steps this run of __main__ has taken: [step, exc, status]
  prior        \* the value under the key when this run started

cacheVars == <<store, call, ret, raised, out, lastPut>>
tableVars == <<data, dataframe, df, result>>
mainVars == <<pc, fetched, redis_data, trace, prior>>
vars == <<store, call, ret, raised, out, lastPut, data, dataframe, df, result,
          pc, fetched, redis_data, trace, prior>>

EmptyStore == [k \in {} |-> [text |-> <<>>, by |-> "external"]]

\* Payloads another client may leave under the key: b'', a truncated
\* document, a page of HTML.
Html == <<"<", "h", "t", "m", "l", ">">>
ExternalTexts == {<<>>, <<"[", "1", ",">>, Html}

NoCall == [op |-> "none", exc |-> "none", note |-> ""]
NoPut == [set |-> FALSE, val |-> PyNone]
NoResult ==
  [op |-> "none", column |-> <<>>, value |-> PyNone, raised |-> "none",
   table |-> NoFrame, agg |-> NoAgg]

CacheIdle ==
  /\ call = NoCall
  /\ ret = PyNone
  /\ raised = "none"
  /\ out = NoPrint
  /\ lastPut = NoPut

TableIdle ==
  /\ data = PyList(<<>>)
  /\ dataframe = NoFrame
  /\ df = NoFrame
  /\ result = NoResult

MainIdle ==
  /\ pc = "idle"
  /\ fetched = PyNone
  /\ redis_data = PyNone
  /\ trace = <<>>
  /\ prior = Nil

\* ------------------------------------------------- the cache, call by call
Init ==
  /\ store \in {EmptyStore,
                RedisSet(EmptyStore, OtherKey, <<"1">>, "external")}
  /\ CacheIdle
  /\ TableIdle
  /\ MainIdle

\* A caller invokes load_data_to_redis(data).
LoadDataToRedis ==
  \E v \in Values, conn \in Conn :
    \E r \in {load_data_to_redis(store, v, conn)} :
      /\ store' = r.store
      /\ ret' = r.ret
      /\ raised' = r.raised
      /\ out' = r.out
      /\ call' = [op |-> "put", exc |-> r.exc,
                  note |-> IF r.exc # "none" THEN "failed"
                           ELSE IF ~lastPut.set THEN "first"
                           ELSE IF lastPut.val = v THEN "same"
                           ELSE "replaced"]
      /\ lastPut' = IF r.exc = "none" THEN [set |-> TRUE, val |-> v]
                    ELSE lastPut
      /\ UNCHANGED <<tableVars, mainVars>>

\* A caller invokes read_data_from_redis(); note records what the call met:
\* a failed connection, no key, an empty value, an undecodable one, or data.
ReadDataFromRedis ==
  \E conn \in Conn :
    \E r \in {read_data_from_redis(store, conn)} :
      /\ ret' = r.ret
      /\ raised' = r.raised
      /\ out' = r.out
      /\ call' = [op |-> "get", exc |-> r.exc,
                  note |-> IF conn # "ok" THEN "connection"
                           ELSE IF DataKey \notin DOMAIN store THEN "absent"
                           ELSE IF store[DataKey].text = <<>> THEN "empty"
                           ELSE IF JsonLoads(store[DataKey].text).exc # "none"
                           THEN "corrupt"
                           ELSE "data"]
      /\ UNCHANGED <<store, lastPut, tableVars, mainVars>>

\* Another client deletes the key (or the store is cleared).
ExternalDel ==
  /\ DataKey \in DOMAIN store
  /\ store' = RedisDel(store, DataKey)
  /\ lastPut' = NoPut
  /\ call' = [op |-> "external", exc |-> "none", note |-> "del"]
  /\ UNCHANGED <<ret, raised, out, tableVars, mainVars>>

\* Another client overwrites the key with a payload of its own.
ExternalSet ==
  \E text \in ExternalTexts :
    /\ store' = RedisSet(store, DataKey, text, "external")
    /\ lastPut' = NoPut
    /\ call' = [op |-> "external", exc |-> "none", note |-> "set"]
    /\ UNCHANGED <<ret, raised, out, tableVars, mainVars>>

Next == LoadDataToRedis \/ ReadDataFromRedis \/ ExternalDel \/ ExternalSet

Spec == Init /\ [][Next]_vars

\* ------------------------------------------------- Analytics, call by call
TableRecords ==
  {PyDict(<<p_brand, p_rate2star>>, <<PyStr(Dell), PyInt(2)>>),
   PyDict(<<p_brand, p_rate2star>>, <<PyStr(Apple), PyInt(4)>>),
   PyDict(<<p_brand, p_rate2star>>, <<PyStr(Dell), PyInt(6)>>),
   PyDict(<<p_brand, p_rate2star>>, <<PyNone, PyInt(4)>>),
   PyDict(<<p_rate2star>>, <<PyNone>>)}

TableSets == {PyList(rs) : rs \in SeqsUpTo(TableRecords, MaxRows)}

SearchColumns == {p_brand, p_rate2star, p_rate3star}
SearchValues == {PyNone, PyStr(Dell), PyStr(Xiaomi), PyInt(4)}

\* Analytics(data): __init__ keeps data and builds the DataFrame.
AnalyticsInit ==
  /\ store = EmptyStore
  /\ CacheIdle
  /\ MainIdle
  /\ data \in TableSets
  /\ dataframe = DataFrameOf(data).df
  /\ df = dataframe
  /\ result = NoResult

SearchData ==
  \E column \in SearchColumns, value \in SearchValues :
    \E r \in {search_data(df, column, value)} :
      /\ result' = [op |-> "search", column |-> column, value |-> value,
                    raised |-> r.raised, table |-> r.table, agg |-> NoAgg]
      /\ UNCHANGED <<data, dataframe, df, cacheVars, mainVars>>

AggregateData ==
  \E column \in SearchColumns :
    \E r \in {aggregate_data(df, column)} :
      /\ result' = [op |-> "aggregate", column |-> column, value |-> PyNone,
                    raised |-> r.raised, table |-> NoFrame, agg |-> r.agg]
      /\ UNCHANGED <<data, dataframe, df, cacheVars, mainVars>>

GenerateGraph ==
  \E column_x \in SearchColumns, column_y \in SearchColumns :
    \E r \in {generate_graph(df, column_x, column_y)} :
      /\ result' = [op |-> "graph", column |-> column_x,
                    value |-> PyStr(column_y), raised |-> r.raised,
                    table |-> NoFrame, agg |-> NoAgg]
      /\ UNCHANGED <<data, dataframe, df, cacheVars, mainVars>>

\* The caller goes on with the subset a search returned (df = df[...]).
UseSubset ==
  /\ result.op = "search"
  /\ result.raised = "none"
  /\ df' = result.table
  /\ result' = NoResult
  /\ UNCHANGED <<data, dataframe, cacheVars, mainVars>>

AnalyticsNext == SearchData \/ AggregateData \/ GenerateGraph \/ UseSubset

AnalyticsSpec == AnalyticsInit /\ [][AnalyticsNext]_vars

\* ------------------------------------------------------- the __main__ flow
TopColumns == 10
Brands == {PyStr(Xiaomi), PyStr(Dell), PyStr(Apple),
           PyStr(<<"L", "e", "n", "o", "v", "o">>),
           PyStr(<<"S", "a", "m", "s", "u", "n", "g">>)}

\* What the products API may answer with.
Catalog ==
  PyList(<<PyDict(<<p_brand, p_rate2star, p_rate3star>>,
                  <<PyStr(Dell), PyInt(2), PyInt(4)>>),
           PyDict(<<p_brand, p_rate2star, p_rate3star>>,
                  <<PyStr(Xiaomi), PyInt(MaxInt), PyNone>>),
           PyDict(<<p_brand, p_rate2star, p_rate3star>>,
                  <<PyStr(Quoted), PyInt(6), PyInt(6)>>)>>)
ApiValues ==
  {PyNone, PyList(<<>>), Catalog,
   PyDict(<<<<"e", "r", "r", "o", "r">>>>, <<PyStr(Dell)>>),
   PyList(<<PyDict(<<p_brand, p_rate2star>>, <<PyStr(Dell), PyInt(2)>>)>>),
   PyList(<<PyDict(<<p_brand, p_rate2star, p_rate3star>>,
                   <<PyStr(Apple), PyStr(Dell), PyInt(0)>>)>>),
   PyList(<<PyDict(<<p_rate2star>>, <<PyInt(2)>>)>>)}

Responses ==
  {[fault |-> "RequestException", status |-> 0, body |-> <<>>]}
  \cup {[fault |-> "none", status |-> st, body |-> b] :
          st \in {200, 500}, b \in {Encode(v) : v \in ApiValues} \cup {Html}}

Step(name, exc, status) == [step |-> name, exc |-> exc, status |-> status]

MainInit ==
  /\ store \in {EmptyStore,
                RedisSet(EmptyStore, OtherKey, <<"1">>, "external")}
  /\ CacheIdle
  /\ TableIdle
  /\ pc = "fetch"
  /\ fetched = PyNone
  /\ redis_data = PyNone
  /\ trace = <<>>
  /\ prior = RedisGet(store, DataKey)

\* data = dl.acquire_data_from_api(url); print("Data retrieval successful")
MainFetch ==
  /\ pc = "fetch"
  /\ \E resp \in Responses :
       \E r \in {acquire_data_from_api(resp)} :
         /\ fetched' = r.ret
         /\ out' = IF r.raised = "none"
                   THEN Printed("Data retrieval successful", "none") ELSE r.out
         /\ pc' = IF r.raised = "none" THEN "write" ELSE "crashed"
         /\ trace' = Append(trace, Step("fetch", r.exc, resp.status))
  /\ UNCHANGED <<store, call, ret, raised, lastPut, tableVars, redis_data, prior>>

\* dl.load_data_to_redis(data, ...)
MainWrite ==
  /\ pc = "write"
  /\ \E conn \in Conn :
       \E r \in {load_data_to_redis(store, fetched, conn)} :
         /\ store' = r.store
         /\ out' = r.out
         /\ pc' = IF r.raised = "none" THEN "read" ELSE "crashed"
         /\ trace' = Append(trace, Step("write", r.exc, 0))
  /\ UNCHANGED <<call, ret, raised, lastPut, tableVars, fetched, redis_data, prior>>

\* redis_data = dl.read_data_from_redis(...)
MainRead ==
  /\ pc = "read"
  /\ \E conn \in Conn :
       \E r \in {read_data_from_redis(store, conn)} :
         /\ redis_data' = r.ret
         /\ out' = r.out
         /\ pc' = IF r.raised = "none" THEN "branch" ELSE "crashed"
         /\ trace' = Append(trace, Step("read", r.exc, 0))
  /\ UNCHANGED <<store, call, ret, raised, lastPut, tableVars, fetched, prior>>

\* else: print("Failed to read data from Redis.")
MainSkip ==
  /\ pc = "branch"
  /\ ~Truthy(redis_data)
  /\ out' = Printed("Failed to read data from Redis.", "none")
  /\ pc' = "done"
  /\ trace' = Append(trace, Step("skip", "none", 0))
  /\ UNCHANGED <<store, call, ret, raised, lastPut, tableVars, fetched,
                 redis_data, prior>>

\* if redis_data: analytics = Analytics(redis_data)
MainAnalytics ==
  /\ pc = "branch"
  /\ Truthy(redis_data)
  /\ \E r \in {DataFrameOf(redis_data)} :
       /\ data' = redis_data
       /\ dataframe' = r.df
       /\ pc' = IF r.exc = "none" THEN "filter" ELSE "crashed"
       /\ trace' = Append(trace, Step("analytics", r.exc, 0))
  /\ UNCHANGED <<cacheVars, df, result, fetched, redis_data, prior>>

\* df = analytics.dataframe[columns[:10]]; df = df[df['p_brand'].isin([...])]
MainFilter ==
  /\ pc = "filter"
  /\ \E r \in {filter_isin(FirstColumns(dataframe, TopColumns), p_brand, Brands)} :
       /\ df' = r.table
       /\ pc' = IF r.raised = "none" THEN "graph" ELSE "crashed"
       /\ trace' = Append(trace, Step("filter", r.raised, 0))
  /\ UNCHANGED <<cacheVars, data, dataframe, result, fetched, redis_data, prior>>

\* analytics.generate_graph(df, 'p_brand', 'p_rate3star')
MainGraph ==
  /\ pc = "graph"
  /\ \E r \in {generate_graph(df, p_brand, p_rate3star)} :
       /\ pc' = IF r.raised = "none" THEN "search" ELSE "crashed"
       /\ trace' = Append(trace, Step("graph", r.raised, 0))
  /\ UNCHANGED <<cacheVars, tableVars, fetched, redis_data, prior>>

\* search_result = analytics.search_data(df, 'p_brand', 'Xiaomi')
MainSearch ==
  /\ pc = "search"
  /\ \E r \in {search_data(df, p_brand, PyStr(Xiaomi))} :
       /\ result' = [op |-> "search", column |-> p_brand,
                     value |-> PyStr(Xiaomi), raised |-> r.raised,
                     table |-> r.table, agg |-> NoAgg]
       /\ pc' = IF r.raised = "none" THEN "aggregate" ELSE "crashed"
       /\ trace' = Append(trace, Step("search", r.raised, 0))
  /\ UNCHANGED <<cacheVars, data, dataframe, df, fetched, redis_data, prior>>

\* agg_result = analytics.aggregate_data(df, 'p_rate2star')
MainAggregate ==
  /\ pc = "aggregate"
  /\ \E r \in {aggregate_data(df, p_rate2star)} :
       /\ result' = [op |-> "aggregate", column |-> p_rate2star,
                     value |-> PyNone, raised |-> r.raised,
                     table |-> NoFrame, agg |-> r.agg]
       /\ pc' = IF r.raised = "none" THEN "done" ELSE "crashed"
       /\ trace' = Append(trace, Step("aggregate", r.raised, 0))
  /\ UNCHANGED <<cacheVars, data, dataframe, df, fetched, redis_data, prior>>

\* The script is started again; the store outlives the process.
MainNewRun ==
  /\ pc \in {"done", "crashed"}
  /\ pc' = "fetch"
  /\ fetched' = PyNone
  /\ redis_data' = PyNone
  /\ trace' = <<>>
  /\ prior' = RedisGet(store, DataKey)
  /\ data' = PyList(<<>>)
  /\ dataframe' = NoFrame
  /\ df' = NoFrame
  /\ result' = NoResult
  /\ out' = NoPrint
  /\ UNCHANGED <<store, call, ret, raised, lastPut>>

MainNext ==
  \/ MainFetch \/ MainWrite \/ MainRead \/ MainSkip \/ MainAnalytics
  \/ MainFilter \/ MainGraph \/ MainSearch \/ MainAggregate \/ MainNewRun

\* The script runs synchronously: once it stands at the else branch, with
\* nothing left that could block, it executes it.
MainSpec == MainInit /\ [][MainNext]_vars /\ WF_vars(MainSkip)

\* ------------------------------------------------------------------ claims
NullText == <<"n", "u", "l", "l">>

\* C1: a read over a working connection that follows a successful
\* load_data_to_redis(R), with no other write to the key in between, raises
\* nothing and returns a value equal to R.
C1_RoundTrip ==
  (call.op = "get" /\ call.note # "connection" /\ lastPut.set)
    => (call.exc = "none" /\ raised = "none" /\ ret = lastPut.val)

\* A RecordSet with a nested mapping, escaped characters, a null and a
\* negative number has made the round trip.
C1_Witness ==
  /\ call.op = "get"
  /\ call.note = "data"
  /\ lastPut.set
  /\ ret = PyList(<<RecNested, RecNull>>)

\* C2 (as the claim states it): the value read_data_from_redis returns for an
\* absent key differs from the one it returns when the connection fails and
\* from the one it returns for an undecodable payload.
C2_Distinguishable ==
  (call.op = "get" /\ call.note = "absent")
    => /\ ret # read_data_from_redis(store, "unreachable").ret
       /\ ret # read_data_from_redis(
                  RedisSet(store, DataKey, Html, "external"), "ok").ret

\* C2 (amended): for an absent key, an empty value, a failed connection and an
\* undecodable payload alike read_data_from_redis returns None and raises
\* nothing; only the printed line differs: "No data found in Redis." for an
\* absent or empty value, "Error reading data from Redis:" with the exception
\* for the two failures.
C2_SameNull ==
  (call.op = "get" /\ call.note \in {"absent", "empty", "connection", "corrupt"})
    => /\ ret = PyNone
       /\ raised = "none"
       /\ call.note \in {"absent", "empty"}
            => out = Printed("No data found in Redis.", "none")
       /\ call.note \in {"connection", "corrupt"}
            => /\ call.exc # "none"
               /\ out = Printed("Error reading data from Redis:", call.exc)

C2_Witness ==
  /\ call.op = "get"
  /\ call.note = "corrupt"
  /\ call.exc = "JSONDecodeError"
  /\ ret = PyNone

\* C3: the program writes no key but 'data_key'; after a successful put of R
\* the entry under it is the JSON text of R, the latest put, and a read
\* returns R.
C3_SingleSlot ==
  /\ {k \in DOMAIN store : store[k].by = "program"} \subseteq {DataKey}
  /\ lastPut.set
       => /\ DataKey \in DOMAIN store
          /\ store[DataKey] = [text |-> Encode(lastPut.val), by |-> "program"]
          /\ read_data_from_redis(store, "ok").ret = lastPut.val

\* A put has replaced the different value an earlier put left.
C3_Witness ==
  /\ call.op = "put"
  /\ call.note = "replaced"
  /\ lastPut.val = PyList(<<RecDell>>)

\* C4: a successful load_data_to_redis(R) that follows a successful
\* load_data_to_redis(R) leaves the store as it was, and a read still gives R.
C4_Idempotent ==
  [][(call'.op = "put" /\ call'.note = "same")
       => (store' = store
           /\ read_data_from_redis(store', "ok").ret = lastPut.val)]_vars

C4_Witness ==
  /\ call.op = "put"
  /\ call.note = "same"
  /\ lastPut.val = PyList(<<RecDell, RecNested>>)

\* C5 (as the claim states it): after a fetch that met a transport error, a
\* non-JSON body or a status other than 200, __main__'s data is None.
C5_FetchFailureIsNull ==
  (Len(trace) >= 1 /\ (trace[1].exc # "none" \/ trace[1].status # 200))
    => fetched = PyNone

\* C6: a put that fails (connection, or a value json cannot encode) and a get
\* that fails (connection, undecodable payload) raise nothing, return None and
\* leave the store as it was.
C6_FailuresContained ==
  [][((call'.op \in {"put", "get"} /\ call'.exc # "none")
        => (store' = store /\ raised' = "none" /\ ret' = PyNone))]_vars

\* A put of an unencodable value has failed over an entry that is still there.
C6_Witness ==
  /\ call.op = "put"
  /\ call.exc = "TypeError"
  /\ lastPut.set
  /\ DataKey \in DOMAIN store

\* The record a row of df was built from.
RecordOf(p) == data.items[df.index[p] + 1]

\* The rows of df whose record has the column with a value equal to v.
Matching(column, v) ==
  {p \in 1..Len(df.rows) :
     /\ IndexOf(RecordOf(p).keys, column) # 0
     /\ PyEq(RecordOf(p).items[IndexOf(RecordOf(p).keys, column)], v)}

NthOf(M, j) == CHOOSE p \in M : Cardinality({q \in M : q < p}) = j - 1

\* The table search_data gave holds exactly the rows of Matching, in order.
FilterAgrees ==
  LET M == Matching(result.column, result.value) IN
  /\ result.raised = "none"
  /\ result.table.columns = df.columns
  /\ Len(result.table.rows) = Cardinality(M)
  /\ Len(result.table.index) = Cardinality(M)
  /\ \A j \in 1..Cardinality(M) :
       /\ result.table.rows[j] = df.rows[NthOf(M, j)]
       /\ result.table.index[j] = df.index[NthOf(M, j)]

\* The frames handed in are as they were built.
TableIntact ==
  /\ dataframe = DataFrameOf(data).df
  /\ \A p \in 1..Len(df.rows) : df.rows[p] = dataframe.rows[df.index[p] + 1]

\* C7 (as the claim states it): for every value v, search_data on a table that
\* has the column returns exactly the rows whose value equals v, in order.
C7_FilterAnyValue ==
  (result.op = "search" /\ IndexOf(df.columns, result.column) # 0)
    => (FilterAgrees /\ TableIntact)

\* C7 (amended): for every value v other than null, search_data on a table
\* that has the column returns exactly the rows whose value equals v, in their
\* original order (none when none matches), and leaves the table as it was.
C7_FilterNonNull ==
  (result.op = "search" /\ IndexOf(df.columns, result.column) # 0
     /\ result.value # PyNone)
    => (FilterAgrees /\ TableIntact)

\* Of three rows the first and the third matched.
C7_Witness ==
  /\ result.op = "search"
  /\ result.value = PyStr(Dell)
  /\ Len(df.rows) = 3
  /\ result.table.index = <<0, 2>>

\* The column is in df and every one of its entries is missing or null.
AllMissing ==
  /\ IndexOf(df.columns, result.column) # 0
  /\ \A p \in 1..Len(df.rows) :
       df.rows[p][IndexOf(df.columns, result.column)] \in {PyNaN, PyNone}

NaNAgg == [min |-> PyNaN, max |-> PyNaN, average |-> NaNMean]

StepNames == [i \in 1..Len(trace) |-> trace[i].step]
IsPrefix(a, b) == Len(a) <= Len(b) /\ a = SubSeq(b, 1, Len(a))
FullRun ==
  <<"fetch", "write", "read", "analytics", "filter", "graph", "search",
    "aggregate">>
SkipRun == <<"fetch", "write", "read", "skip">>
AnalyzeSteps == {"analytics", "filter", "graph", "search", "aggregate"}

\* The steps of a run are taken in order, each once; analysis only on data;
\* no crash before the branch, and none at all when there is no data.
C9_Order ==
  /\ IsPrefix(StepNames, FullRun) \/ IsPrefix(StepNames, SkipRun)
  /\ \A i \in 1..Len(trace) :
       trace[i].step \in AnalyzeSteps => Truthy(redis_data)
  /\ Len(trace) <= 3 => pc # "crashed"
  /\ (Len(trace) >= 3 /\ ~Truthy(redis_data))
       => /\ pc \in {"branch", "done"}
          /\ pc = "done" => StepNames = SkipRun

\* C9: every run of __main__ takes Fetch, Cache-write, Cache-read, Analyze in
\* that order, each at most once; it analyzes only if the read returned data;
\* and when it returned none the run reaches its end, analysis skipped, with
\* no fatal error.
C9_FlowOrder ==
  /\ []C9_Order
  /\ (pc = "branch" /\ ~Truthy(redis_data)) ~> (pc = "done")

\* A run whose fetch failed has ended with the analysis skipped.
C9_Witness ==
  /\ pc = "done"
  /\ StepNames = SkipRun
  /\ trace[1].exc = "RequestException"

\* C10: when the fetch returned None and the write that follows succeeded, the
\* entry under 'data_key' is the text null, whatever was cached before, and
\* the read that follows returns None.
C10_FetchFailureClobbersCache ==
  (Len(trace) >= 2 /\ fetched = PyNone /\ trace[2].exc = "none")
    => /\ RedisGet(store, DataKey) = NullText
       /\ Len(trace) >= 3 => redis_data = PyNone

\* A run that started with the catalog cached has lost it to a failed fetch.
C10_Witness ==
  /\ prior = Encode(Catalog)
  /\ Len(trace) >= 3
  /\ trace[1].exc = "RequestException"
  /\ trace[2].exc = "none"
  /\ trace[3].exc = "none"
  /\ RedisGet(store, DataKey) = NullText
  /\ redis_data = PyNone
=============================================================================
